---- MODULE Spec2Model ----
(***************************************************************************)
(* Website-ingestion pipeline: browser pool, URL classifier, discovery     *)
(* crawl, scrape-job state machine and ingestion workers.                  *)
(*                                                                         *)
(* Strings that the code inspects character by character (URL paths) are   *)
(* sequences of one-character strings.  A URL is the record that `new      *)
(* URL(...)` parses it into: hostname, pathname, the query parameter names *)
(* in order, the fragment, and whether the parse succeeds at all.          *)
(***************************************************************************)
EXTENDS Integers, Sequences, FiniteSets, TLC

\* ------------------------------------------------------------------ bounds
\* Largest maxPages argument given to a discovery run (0 means "everything").
MaxMaxPages == 2
\* Number of links on the largest page of the crawled site.
BigFanout == 501

\* Number of startScrapingJob calls.
MaxStarts == 2
\* Longest selectedUrls list given to startScrapingJob.
MaxSelected == 2
\* Number of concurrent callers of browserPool.getPage().
NumCallers == 6
\* Largest number of chunks that a document's content splits into.
MaxChunks == 2
\* Longest text given to splitTextIntoChunks, and largest chunkSize.
MaxTextLen == 5
MaxChunkSize == 4
\* Largest limit given to searchKnowledgeBase.
MaxLimit == 2

\* ------------------------------------------------------- program constants
\* scrapeWebsite returns null for content shorter than this.
MinScrapedContent == 20
\* startScrapingJob saves and counts a result only with content this long.
MinSavedContent == 50
\* Progress is written when scrapedCount is a multiple of this.
ProgressBatch == 5
\* browserPool.maxPages.
poolMaxPages == 5
\* The default of scrapeWebsite's retries parameter, which startScrapingJob
\* also passes.
DefaultRetries == 2
\* knowledgeBase.service.ts 341: how far behind potentialEnd a separator is
\* looked for.
SearchBack == 100
\* maxCrawlPages when maxPages is not positive.
DefaultCrawlPages == 500
\* A progress write happens once this many URLs were discovered since the last.
ProgressEvery == 10
\* Rule 5 of the classifier: more query parameters than this are rejected.
MaxQueryParams == 5

NoJob == "nojob"
NoUrl == [valid |-> FALSE, host |-> "", path |-> <<>>, params |-> <<>>, frag |-> ""]

\* ----------------------------------------------------------- string helpers
Includes(s, t) ==
    \E i \in 1..(Len(s) - Len(t) + 1) : SubSeq(s, i, i + Len(t) - 1) = t

EndsWith(s, t) ==
    Len(s) >= Len(t) /\ SubSeq(s, Len(s) - Len(t) + 1, Len(s)) = t

UpperToLower ==
    [c \in {"A","B","C","D","E","F","G","H","I","J","K","L","M","N","O","P","Q",
            "R","S","T","U","V","W","X","Y","Z"} |->
        CASE c = "A" -> "a" [] c = "B" -> "b" [] c = "C" -> "c" [] c = "D" -> "d"
          [] c = "E" -> "e" [] c = "F" -> "f" [] c = "G" -> "g" [] c = "H" -> "h"
          [] c = "I" -> "i" [] c = "J" -> "j" [] c = "K" -> "k" [] c = "L" -> "l"
          [] c = "M" -> "m" [] c = "N" -> "n" [] c = "O" -> "o" [] c = "P" -> "p"
          [] c = "Q" -> "q" [] c = "R" -> "r" [] c = "S" -> "s" [] c = "T" -> "t"
          [] c = "U" -> "u" [] c = "V" -> "v" [] c = "W" -> "w" [] c = "X" -> "x"
          [] c = "Y" -> "y" [] c = "Z" -> "z"]

toLowerCase(s) ==
    [i \in 1..Len(s) |-> IF s[i] \in DOMAIN UpperToLower THEN UpperToLower[s[i]] ELSE s[i]]

\* Index of the last "." of s, 0 when there is none.
LastDot(s) ==
    IF \E i \in 1..Len(s) : s[i] = "."
    THEN CHOOSE i \in 1..Len(s) : s[i] = "." /\ \A k \in (i + 1)..Len(s) : s[k] # "."
    ELSE 0

\* path.split('.').pop()
LastExtension(s) == SubSeq(s, LastDot(s) + 1, Len(s))

\* ------------------------------------------------------------ URL classifier
systemKeywords ==
    { <<"w","p","-","a","d","m","i","n">>, <<"w","p","-","l","o","g","i","n">>,
      <<"w","p","-","i","n","c","l","u","d","e","s">>, <<"w","p","-","j","s","o","n">>,
      <<"a","d","m","i","n">>, <<"l","o","g","i","n">>, <<"l","o","g","o","u","t">>,
      <<"s","i","g","n","i","n">>, <<"s","i","g","n","u","p">>,
      <<"d","a","s","h","b","o","a","r","d">>, <<"p","a","n","e","l">>,
      <<"c","p","a","n","e","l">>, <<"n","o","d","e","_","m","o","d","u","l","e","s">>,
      <<".","g","i","t">>, <<".","e","n","v">>, <<"c","g","i","-","b","i","n">>,
      <<"a","p","i","/">>, <<"r","e","s","t","/">>, <<"g","r","a","p","h","q","l">>,
      <<"f","e","e","d">>, <<"r","s","s">>, <<"a","t","o","m">>, <<"c","a","r","t">>,
      <<"c","h","e","c","k","o","u","t">>, <<"p","a","y","m","e","n","t">>,
      <<"s","e","a","r","c","h","?">>, <<"a","j","a","x">>,
      <<"a","c","t","i","o","n","=">> }

nonPageExtensions ==
    { <<"j","p","g">>, <<"j","p","e","g">>, <<"p","n","g">>, <<"g","i","f">>,
      <<"s","v","g">>, <<"w","e","b","p">>, <<"i","c","o">>, <<"b","m","p">>,
      <<"c","s","s">>, <<"s","c","s","s">>, <<"l","e","s","s">>, <<"j","s">>,
      <<"m","j","s">>, <<"t","s">>, <<"j","s","x">>, <<"p","d","f">>, <<"d","o","c">>,
      <<"d","o","c","x">>, <<"x","l","s">>, <<"x","l","s","x">>, <<"p","p","t">>,
      <<"p","p","t","x">>, <<"z","i","p">>, <<"r","a","r">>, <<"t","a","r">>, <<"g","z">>,
      <<"7","z">>, <<"m","p","3">>, <<"w","a","v">>, <<"o","g","g">>, <<"m","p","4">>,
      <<"a","v","i">>, <<"m","o","v">>, <<"w","e","b","m">>, <<"x","m","l">>,
      <<"j","s","o","n">>, <<"t","x","t">>, <<"l","o","g">>, <<"c","s","v">>,
      <<"w","o","f","f">>, <<"w","o","f","f","2">>, <<"t","t","f">>, <<"o","t","f">>,
      <<"e","o","t">>, <<"m","a","p">> }

skipParams == {"action", "ajax", "callback", "jsonp"}

\* A Content-Type header is the sequence of its ";"-separated parts; <<>> is
\* the absent header (the code's '').
NoContentType == <<>>
ContentTypeIncludes(ct, part) == \E i \in 1..Len(ct) : ct[i] = part

Rule1Rejects(contentType) ==
    /\ contentType # NoContentType
    /\ ~ContentTypeIncludes(contentType, "text/html")
    /\ ~ContentTypeIncludes(contentType, "text/plain")

Rule2Rejects(path) ==
    \E keyword \in systemKeywords :
        \/ Includes(path, <<"/">> \o keyword)
        \/ Includes(path, keyword \o <<"/">>)
        \/ EndsWith(path, <<"/">> \o keyword)

Rule3Rejects(path) ==
    /\ Includes(path, <<".">>)
    /\ LastExtension(path) \in nonPageExtensions

Rule4Rejects(params) == \E i \in 1..Len(params) : params[i] \in skipParams

Rule5Rejects(params) == Len(params) > MaxQueryParams

isLikelyContentUrl(url, contentType) ==
    IF ~url.valid THEN FALSE
    ELSE LET path == toLowerCase(url.path) IN
         /\ ~Rule1Rejects(contentType)
         /\ ~Rule2Rejects(path)
         /\ ~Rule3Rejects(path)
         /\ ~Rule4Rejects(url.params)
         /\ ~Rule5Rejects(url.params)

\* The elements of a sequence.
Range(seq) == {seq[i] : i \in 1..Len(seq)}

\* ------------------------------------------------------------- URL universe
Origin == "ex.com"

Url(host, path) ==
    [valid |-> TRUE, host |-> host, path |-> path, params |-> <<>>, frag |-> ""]

UrlRoot == Url(Origin, <<"/">>)
UrlA == Url(Origin, <<"/", "a">>)
UrlB == Url(Origin, <<"/", "b">>)
UrlAdmin == Url(Origin, <<"/", "a", "d", "m", "i", "n">>)
UrlExternal == Url("other.org", <<"/", "a">>)
UrlAFragment == [UrlA EXCEPT !.frag = "top"]
\* /a?p=..&p=..&p=..&p=..&p=..&p=.. and /a?p=..&q=..&r=..&s=..&t=..&u=..
UrlRepeatedParam == [UrlA EXCEPT !.params = <<"p", "p", "p", "p", "p", "p">>]
UrlSixParams == [UrlA EXCEPT !.params = <<"p", "q", "r", "s", "t", "u">>]

DigitChars == <<"0", "1", "2", "3", "4", "5", "6", "7", "8", "9">>

RECURSIVE Digits(_)
Digits(n) ==
    IF n < 10 THEN <<DigitChars[n + 1]>>
    ELSE Digits(n \div 10) \o <<DigitChars[(n % 10) + 1]>>

\* The links of a page with BigFanout same-host links: /p1, /p2, ...
BigLinks == [i \in 1..BigFanout |-> Url(Origin, <<"/", "p">> \o Digits(i))]

SmallLinks == <<UrlA, UrlB, UrlRoot, UrlExternal, UrlAdmin, UrlAFragment>>

\* The elements of seq at the indices in S, in ascending index order.
RECURSIVE Pick(_, _, _)
Pick(seq, S, i) ==
    IF i > Len(seq) THEN <<>>
    ELSE (IF i \in S THEN <<seq[i]>> ELSE <<>>) \o Pick(seq, S, i + 1)

\* The link lists a fetched page may yield (what page.evaluate returns, each
\* href already resolved against the page's URL).
PageLinkLists == {Pick(SmallLinks, S, 1) : S \in SUBSET (1..Len(SmallLinks))}

\* The links of a page with ProgressEvery same-host links.
WideLinks == SubSeq(BigLinks, 1, ProgressEvery)

\* The sites a crawl may run on.  On "small" every page yields any of
\* PageLinkLists; "wide" and "star" have a base page that links to
\* ProgressEvery resp. BigFanout leaf pages without links; "three" is the
\* site of three HTML pages where / links to /a and /b, and /a links to /b
\* and to another host.  Browser calls and job-row writes may fail on "small"
\* and "wide".
Sites == {"small", "wide", "star", "three"}

\* The site of a job whose store applies every write while any browser call
\* may fail: / links to /a and /b.
UnstableSites == {"unstable"}

LinkListsAt(d) ==
    CASE d.site = "small" -> PageLinkLists
      [] d.site = "wide" -> IF d.currentUrl = d.baseUrl THEN {WideLinks} ELSE {<<>>}
      [] d.site = "star" -> IF d.currentUrl = d.baseUrl THEN {BigLinks} ELSE {<<>>}
      [] d.site = "three" ->
            IF d.currentUrl = UrlRoot THEN {<<UrlA, UrlB>>}
            ELSE IF d.currentUrl = UrlA THEN {<<UrlB, UrlExternal>>}
            ELSE {<<>>}
      [] d.site \in UnstableSites ->
            IF d.currentUrl = d.baseUrl THEN {<<UrlA, UrlB>>} ELSE {<<>>}

\* Whether the browser call the crawl is waiting for may reject.
MayReject(d) == d.site \in {"small", "wide"} \cup UnstableSites

\* Whether the write of the job's row that the crawl is waiting for may reject.
StoreMayReject(d) == d.site \in {"small", "wide"}

ContentTypes == {<<"text/html", "charset=utf-8">>, <<"application/pdf">>, NoContentType}

\* The Content-Type headers that the response for the current page may carry.
ContentTypesAt(d) ==
    IF d.site = "three" THEN {<<"text/html", "charset=utf-8">>} ELSE ContentTypes

BaseUrls == {UrlRoot, UrlAdmin, NoUrl}

JobIds == {"j1"}
CrawlIds == JobIds \cup {NoJob}

\* Concurrent callers of browserPool.getPage(): each is one span from
\* getPage() to page.close() in scrapeWebsite or dynamicUrlDiscovery.
Callers == 1..NumCallers

VARIABLES
    crawl,      \* crawl[c]: the locals of the dynamicUrlDiscovery call of job c
    jobs,       \* jobs[j]: the ScrapeJob row of job j
    browser,    \* browserPool.browser: "null", "connected" or "disconnected"
    callerPc,   \* callerPc[p]: where caller p is in getPage() ... page.close()
    workers,    \* workers[w]: the locals of the ingestion callback in slot w
    documents,  \* documents[k]: number of Document rows with key k = <<kb, sourceUrl>>
    scrape,     \* the frames of one scrapeWebsite call and of its retries
    kbDocs,     \* kbDocs[d]: the Document row d, its chunk rows and its processing
    split,      \* one splitTextIntoChunks call: its arguments and its locals
    kbs,        \* kbs[kb]: the KnowledgeBase row kb
    search      \* the latest searchKnowledgeBase call and what it returned

vars == <<crawl, jobs, browser, callerPc, workers, documents, scrape, kbDocs, split,
          kbs, search>>
poolVars == <<browser, callerPc>>
ingestVars == <<workers, documents>>
storeVars == <<kbs, search>>
callVars == <<scrape, kbDocs, split, storeVars>>
jobVarsButCalls == <<crawl, jobs, workers, documents>>
allButScrape == <<jobVarsButCalls, poolVars, kbDocs, split, storeVars>>
allButDocs == <<jobVarsButCalls, poolVars, scrape, split, storeVars>>
allButSplit == <<jobVarsButCalls, poolVars, scrape, kbDocs, storeVars>>
allButKbs == <<jobVarsButCalls, poolVars, scrape, kbDocs, split, search>>
allButSearch == <<jobVarsButCalls, poolVars, scrape, kbDocs, split, kbs>>
jobVars == <<crawl, jobs, workers, documents, callVars>>

\* ------------------------------------------------------ dynamicUrlDiscovery
IdleCrawl ==
    [pc |-> "idle", baseUrl |-> NoUrl, maxPages |-> 0, discovered |-> {},
     visited |-> {}, queue |-> <<>>, processedCount |-> 0, lastUpdateCount |-> 0,
     currentUrl |-> NoUrl, page |-> FALSE, fetched |-> 0, site |-> "small",
     intercepting |-> FALSE, baseFetch |-> "none", linkRejected |-> FALSE,
     poolFailed |-> FALSE, gotoFailed |-> FALSE]

\* The call dynamicUrlDiscovery(baseUrl, maxPages, jobId) about to run.
CalledCrawl(baseUrl, maxPages, site) ==
    [IdleCrawl EXCEPT !.pc = "start", !.baseUrl = baseUrl, !.maxPages = maxPages,
                      !.site = site]

maxCrawlPages(maxPages) == IF maxPages > 0 THEN maxPages ELSE DefaultCrawlPages

SeedDiscoveredNothing(baseUrl) == {}

SeedDiscovered(baseUrl) == {baseUrl}

LoopContinuesUncapped(d) == Len(d.queue) > 0

LoopContinues(d) ==
    Len(d.queue) > 0 /\ d.processedCount < maxCrawlPages(d.maxPages)

StripFragment(url) == [url EXCEPT !.frag = ""]

AcceptsLinkAnyHost(cleanUrl, domain, discovered, visited) ==
    /\ cleanUrl.valid
    /\ isLikelyContentUrl(cleanUrl, NoContentType)
    /\ cleanUrl \notin discovered
    /\ cleanUrl \notin visited

AcceptsLinkUnclassified(cleanUrl, domain, discovered, visited) ==
    /\ cleanUrl.valid
    /\ cleanUrl.host = domain
    /\ cleanUrl \notin discovered
    /\ cleanUrl \notin visited

\* Whether the link loop adds cleanUrl to discoveredUrls and the queue.
AcceptsLink(cleanUrl, domain, discovered, visited) ==
    /\ cleanUrl.valid
    /\ cleanUrl.host = domain
    /\ isLikelyContentUrl(cleanUrl, NoContentType)
    /\ cleanUrl \notin discovered
    /\ cleanUrl \notin visited

\* One pass of the loop over extractedUrls (lines 543-559); acc = [discovered, queue].
ProcessLink(link, domain, visited, acc) ==
    LET cleanUrl == StripFragment(link) IN
    IF AcceptsLink(cleanUrl, domain, acc.discovered, visited)
    THEN [discovered |-> acc.discovered \cup {cleanUrl},
          queue |-> Append(acc.queue, cleanUrl)]
    ELSE acc

\* The loop over extractedUrls[lo..hi] in order (lines 542-560).  The list is
\* walked in two halves; the state after the first half is bound as a value
\* (firstHalf) before the second half starts, so that a long list nests only
\* logarithmically deep.
RECURSIVE ProcessLinks(_, _, _, _, _, _)
ProcessLinks(links, lo, hi, domain, visited, acc) ==
    IF lo > hi THEN acc
    ELSE IF lo = hi THEN ProcessLink(links[lo], domain, visited, acc)
    ELSE LET mid == (lo + hi) \div 2 IN
         CHOOSE result \in
             {ProcessLinks(links, mid + 1, hi, domain, visited, firstHalf) :
                 firstHalf \in {ProcessLinks(links, lo, mid, domain, visited, acc)}} :
             TRUE

\* History of the run, read by no action: how the fetch of baseUrl ended.
BaseFetch(d, outcome) ==
    IF d.currentUrl = d.baseUrl THEN outcome ELSE d.baseFetch

\* History of the run, read by no action: whether the classifier rejected
\* (line 504) the fetched page of a URL that the crawl had found as a link.
LinkRejected(d, likely) ==
    d.linkRejected \/ (~likely /\ d.currentUrl # d.baseUrl)

\* Lines 451-462: the synchronous prologue; new URL(baseUrl) throws on an
\* unparsable baseUrl.
DiscBegin(c) ==
    /\ crawl[c].pc = "start"
    /\ crawl' = [crawl EXCEPT ![c] =
          IF ~crawl[c].baseUrl.valid
          THEN [@ EXCEPT !.pc = "thrown"]
          ELSE [@ EXCEPT !.pc = "loop",
                         !.discovered = SeedDiscovered(crawl[c].baseUrl),
                         !.queue = <<crawl[c].baseUrl>>]]
    /\ UNCHANGED <<jobs, poolVars, callVars, ingestVars>>

\* Line 464 false, then 570-571: the crawl returns Array.from(discoveredUrls).
DiscReturn(c) ==
    /\ crawl[c].pc = "loop"
    /\ ~LoopContinues(crawl[c])
    /\ crawl' = [crawl EXCEPT ![c].pc = "returned"]
    /\ UNCHANGED <<jobs, poolVars, callVars, ingestVars>>

\* Lines 464-481: one pass of the loop head, up to its first await.
DiscDequeue(c) ==
    LET d == crawl[c]
        currentUrl == Head(d.queue)
    IN  /\ d.pc = "loop"
        /\ LoopContinues(d)
        /\ crawl' = [crawl EXCEPT ![c] =
              IF currentUrl \in d.visited
              THEN [d EXCEPT !.queue = Tail(d.queue)]
              ELSE [d EXCEPT !.queue = Tail(d.queue),
                             !.visited = d.visited \cup {currentUrl},
                             !.processedCount = d.processedCount + 1,
                             !.currentUrl = currentUrl,
                             !.pc = IF c # NoJob /\
                                       Cardinality(d.discovered) - d.lastUpdateCount
                                           >= ProgressEvery
                                    THEN "update" ELSE "getPage"]]
        /\ UNCHANGED <<jobs, poolVars, callVars, ingestVars>>

\* Lines 497-499 and 561-567: browserPool.getPage() resolves with a new page
\* (lines 57-60: no request interceptor on it), or rejects and is caught by
\* the pass's own catch (no page to close).
DiscGetPage(c) ==
    /\ crawl[c].pc = "getPage"
    /\ \/ crawl' = [crawl EXCEPT ![c].pc = "goto", ![c].page = TRUE,
                                 ![c].intercepting = FALSE]
       \/ /\ MayReject(crawl[c])
          /\ crawl' = [crawl EXCEPT ![c].pc = "loop",
                                    ![c].poolFailed = TRUE,
                                    ![c].baseFetch = BaseFetch(crawl[c], "failed")]
    /\ UNCHANGED <<jobs, poolVars, callVars, ingestVars>>

\* Lines 500-562: navigation and link extraction; every throw in it is caught
\* at 561, a classifier reject leaves by `continue`; both go on to finally.
DiscGoto(c) ==
    LET d == crawl[c] IN
    /\ d.pc = "goto"
    /\ \/ \* page.goto (or a later page call) throws
          /\ MayReject(d)
          /\ crawl' = [crawl EXCEPT ![c].pc = "close", ![c].fetched = d.fetched + 1,
                                    ![c].gotoFailed = TRUE,
                                    ![c].baseFetch = BaseFetch(d, "failed")]
       \/ \E contentType \in ContentTypesAt(d), links \in LinkListsAt(d) :
             LET likely == isLikelyContentUrl(d.currentUrl, contentType)
                 acc == IF likely
                        THEN ProcessLinks(links, 1, Len(links), d.baseUrl.host, d.visited,
                                 [discovered |-> d.discovered, queue |-> d.queue])
                        ELSE [discovered |-> d.discovered, queue |-> d.queue]
             IN crawl' = [crawl EXCEPT ![c].pc = "close",
                                       ![c].fetched = d.fetched + 1,
                                       ![c].baseFetch =
                                           BaseFetch(d, IF likely THEN "ok" ELSE "rejected"),
                                       ![c].linkRejected =
                                           LinkRejected(d, likely),
                                       ![c].discovered = acc.discovered,
                                       ![c].queue = acc.queue]
    /\ UNCHANGED <<jobs, poolVars, callVars, ingestVars>>

\* Lines 563-567: page.close() in finally; when it rejects, the rejection
\* leaves dynamicUrlDiscovery.
DiscClosePage(c) ==
    /\ crawl[c].pc = "close"
    /\ \/ crawl' = [crawl EXCEPT ![c].pc = "loop", ![c].page = FALSE,
                                 ![c].gotoFailed = FALSE]
       \/ /\ MayReject(crawl[c])
          /\ crawl' = [crawl EXCEPT ![c].pc = "thrown", ![c].page = FALSE,
                                    ![c].gotoFailed = FALSE]
    /\ UNCHANGED <<jobs, poolVars, callVars, ingestVars>>

\* ------------------------------------------------ job store and ingestion
NoJobRow ==
    [status |-> "none", baseUrl |-> NoUrl, maxPages |-> 0, knowledgeBaseId |-> "",
     discoveredUrls |-> {}, selectedUrls |-> <<>>, totalUrls |-> 0,
     scrapedCount |-> 0, scrapedUrls |-> <<>>]

\* Slots for running ingestion callbacks.  A slot is taken by a
\* startScrapingJob call and can be taken again once its callback has ended.
WorkerIds == {"w1"}

FreeWorker ==
    [pc |-> "free", job |-> NoJob, knowledgeBaseId |-> "", selectedUrls |-> <<>>,
     idx |-> 0, scrapedCount |-> 0, savedCount |-> 0, results |-> <<>>,
     starts |-> 0, outcomes |-> <<>>, completion |-> "none"]

\* History of the run, read by no action: how the pass for selectedUrls[idx]
\* ended: "failed" (no attempt of scrapeWebsite succeeded, or it threw),
\* "empty" (scrapeWebsite skipped the page as empty), "short" (a result too
\* short for line 664) or "saved" (pushed and counted).  completion, read by
\* no action either, tells whether the update of lines 708-715 was "applied"
\* or "rejected".
Noted(wk, outcome) == [wk EXCEPT !.outcomes = Append(wk.outcomes, outcome)]

KbIds == {"kb1"}
SelectableUrls == {UrlRoot, UrlA}
\* A selection of five pages.
FiveUrls == <<UrlRoot, UrlA, UrlB, BigLinks[1], BigLinks[2]>>
DocumentKeys == KbIds \X (SelectableUrls \cup Range(FiveUrls))

InitIngestVars ==
    /\ workers = [w \in WorkerIds |-> FreeWorker]
    /\ documents = [k \in DocumentKeys |-> 0]


\* Lines 481-495: the progress write of a crawl that has a jobId; a rejected
\* update is caught and only logged.
DiscProgressWrite(c) ==
    LET d == crawl[c] IN
    /\ d.pc = "update"
    /\ \/ /\ jobs' = [jobs EXCEPT ![c].discoveredUrls = d.discovered,
                                  ![c].totalUrls = Cardinality(d.discovered)]
          /\ crawl' = [crawl EXCEPT ![c].pc = "getPage",
                                    ![c].lastUpdateCount = Cardinality(d.discovered)]
       \/ /\ StoreMayReject(d)
          /\ crawl' = [crawl EXCEPT ![c].pc = "getPage"]
          /\ UNCHANGED jobs
    /\ UNCHANGED <<poolVars, callVars, ingestVars>>

\* Lines 576-593 and 636: the row is created in DISCOVERING and the discovery
\* callback is scheduled with setImmediate.
createScrapeJob(j, baseUrl, knowledgeBaseId, maxPages, site) ==
    /\ jobs[j].status = "none"
    /\ jobs' = [jobs EXCEPT ![j] =
          [NoJobRow EXCEPT !.status = "DISCOVERING", !.baseUrl = baseUrl,
                           !.maxPages = maxPages,
                           !.knowledgeBaseId = knowledgeBaseId]]
    /\ crawl' = [crawl EXCEPT ![j] = CalledCrawl(baseUrl, maxPages, site)]
    /\ UNCHANGED <<poolVars, callVars, ingestVars>>

\* Lines 597-614: the crawl returned; its result is written with PENDING, or
\* the update rejects and control goes to the catch at 616.
DiscoveryCompletes(j) ==
    /\ crawl[j].pc = "returned"
    /\ \/ /\ jobs' = [jobs EXCEPT ![j].discoveredUrls = crawl[j].discovered,
                                  ![j].totalUrls = Cardinality(crawl[j].discovered),
                                  ![j].status = "PENDING"]
          /\ crawl' = [crawl EXCEPT ![j].pc = "done"]
       \/ /\ StoreMayReject(crawl[j])
          /\ crawl' = [crawl EXCEPT ![j].pc = "thrown"]
          /\ UNCHANGED jobs
    /\ UNCHANGED <<poolVars, callVars, ingestVars>>

FallbackStatusFailed(row) == "FAILED"

\* Line 630: status: 'PENDING'
FallbackStatus(row) == "PENDING"

\* Lines 616-633: the try block threw; the fallback is written with PENDING,
\* or the update rejects and the callback ends with the row as it was.
DiscoveryFallsBack(j) ==
    /\ crawl[j].pc = "thrown"
    /\ \/ jobs' = [jobs EXCEPT ![j].discoveredUrls = {jobs[j].baseUrl},
                               ![j].totalUrls = 1,
                               ![j].status = FallbackStatus(jobs[j])]
       \/ /\ StoreMayReject(crawl[j])
          /\ UNCHANGED jobs
    /\ crawl' = [crawl EXCEPT ![j].pc = "done"]
    /\ UNCHANGED <<poolVars, callVars, ingestVars>>

NextPassEndsRun(wk) == [wk EXCEPT !.pc = "complete", !.idx = wk.idx + 1]

\* Where the ingestion loop goes after the pass for selectedUrls[idx].
NextPass(wk) ==
    IF wk.idx + 1 > Len(wk.selectedUrls)
    THEN [wk EXCEPT !.pc = "complete", !.idx = wk.idx + 1]
    ELSE [wk EXCEPT !.pc = "scrape", !.idx = wk.idx + 1]

\* Line 693: whether the pass writes progress.
WritesProgress(wk) ==
    wk.scrapedCount % ProgressBatch = 0 \/ wk.scrapedCount = Len(wk.selectedUrls)

AfterResult(wk) ==
    IF WritesProgress(wk) THEN [wk EXCEPT !.pc = "progress"] ELSE NextPass(wk)

\* Lines 639-655 and 720: the row is read (a missing row throws), then
\* written with IN_PROGRESS, and the ingestion callback is scheduled.
startScrapingJob(j, selectedUrls) ==
    /\ jobs[j].status # "none"
    /\ \E w \in WorkerIds :
          /\ workers[w].pc \in {"free", "done"}
          /\ workers[w].starts < MaxStarts
          /\ workers' = [workers EXCEPT ![w] =
                [FreeWorker EXCEPT
                    !.pc = IF Len(selectedUrls) = 0 THEN "complete" ELSE "scrape",
                    !.job = j, !.knowledgeBaseId = jobs[j].knowledgeBaseId,
                    !.selectedUrls = selectedUrls, !.idx = 1,
                    !.starts = workers[w].starts + 1]]
    /\ jobs' = [jobs EXCEPT ![j].status = "IN_PROGRESS",
                            ![j].selectedUrls = selectedUrls,
                            ![j].totalUrls = Len(selectedUrls)]
    /\ UNCHANGED <<crawl, poolVars, callVars, documents>>

\* Lines 395-401: what scrapeWebsite returns for extracted content of the
\* given length: null ("null") when shorter than 20, the result otherwise.
ScrapeReturns(contentLength) ==
    IF contentLength < MinScrapedContent THEN "null" ELSE "result"

\* Line 664: result && result.content && result.content.length >= 50
IsSaved(returned, contentLength) ==
    returned = "result" /\ contentLength >= MinSavedContent

\* The lengths of extracted content that the model's pages have.
ContentLengths ==
    {MinScrapedContent - 1, MinScrapedContent, MinSavedContent - 1, MinSavedContent}

AfterThrowEndsCallback(wk) == [Noted(wk, "failed") EXCEPT !.pc = "done"]

\* Lines 702-705: an error thrown inside the pass is caught and logged, and
\* the loop goes on with the next URL.
AfterThrow(wk) == NextPass(Noted(wk, "failed"))

\* Lines 660-664 and 702-704: scrapeWebsite for selectedUrls[idx].  It
\* returns null (all attempts failed, or the page was skipped), or a result;
\* or it throws (page.close() in its finally), which the pass's catch logs.
IngestScrape(w) ==
    LET wk == workers[w] IN
    /\ wk.pc = "scrape"
    /\ \/ workers' = [workers EXCEPT ![w] = AfterResult(Noted(wk, "failed"))]
       \/ \E contentLength \in ContentLengths :
             workers' = [workers EXCEPT ![w] =
                 IF IsSaved(ScrapeReturns(contentLength), contentLength)
                 THEN [wk EXCEPT !.pc = "save"]
                 ELSE AfterResult(Noted(wk,
                          IF ScrapeReturns(contentLength) = "null"
                          THEN "empty" ELSE "short"))]
       \/ workers' = [workers EXCEPT ![w] = AfterThrow(wk)]
    /\ UNCHANGED <<crawl, jobs, poolVars, callVars, documents>>

\* The Document table's schema is not among the sources.  The data model
\* gives it a unique index on (knowledgeBaseId, sourceUrl) for non-null
\* sourceUrl, so prisma.document.create() for a key that has a row rejects.
DocumentCreateUnconstrained(docs, key) == TRUE

DocumentCreateAccepted(docs, key) == docs[key] = 0

\* Lines 667-690 with createDocument (knowledgeBase.service.ts 145-166): the
\* knowledge base is found live and the Document row is created (created),
\* or createDocument throws (knowledge base not found, or create() rejects)
\* and is caught at 684; either way the result is pushed and counted.
IngestSaveRows(w, created) ==
    LET wk == workers[w]
        url == wk.selectedUrls[wk.idx]
        key == <<wk.knowledgeBaseId, url>>
        counted == [Noted(wk, "saved") EXCEPT
                       !.scrapedCount = wk.scrapedCount + 1,
                       !.savedCount = wk.savedCount + (IF created THEN 1 ELSE 0),
                       !.results = Append(wk.results, url)]
    IN  /\ wk.pc = "save"
        /\ IF created
           THEN /\ ~kbs[wk.knowledgeBaseId].deleted
                /\ DocumentCreateAccepted(documents, key)
                /\ documents' = [documents EXCEPT ![key] = documents[key] + 1]
           ELSE UNCHANGED documents
        /\ workers' = [workers EXCEPT ![w] = AfterResult(counted)]

\* The pass of lines 667-690 where the processing of the created Document
\* (knowledgeBase.service.ts 168-177) is not followed.
IngestSave(w) ==
    /\ \E created \in BOOLEAN : IngestSaveRows(w, created)
    /\ UNCHANGED <<crawl, jobs, poolVars, callVars>>

\* Lines 693-704: the progress write; a rejected update is caught at 702.
IngestProgressWrite(w) ==
    LET wk == workers[w] IN
    /\ wk.pc = "progress"
    /\ \/ jobs' = [jobs EXCEPT ![wk.job].scrapedCount = wk.scrapedCount,
                               ![wk.job].scrapedUrls = wk.results]
       \/ UNCHANGED jobs
    /\ workers' = [workers EXCEPT ![w] = NextPass(wk)]
    /\ UNCHANGED <<crawl, poolVars, callVars, documents>>

\* Lines 707-717: the job is marked COMPLETED; a rejected update ends the
\* callback (nothing catches it) with the row as it was.
IngestComplete(w) ==
    LET wk == workers[w] IN
    /\ wk.pc = "complete"
    /\ \/ /\ jobs' = [jobs EXCEPT ![wk.job].status = "COMPLETED",
                                  ![wk.job].scrapedCount = wk.scrapedCount]
          /\ workers' = [workers EXCEPT ![w].pc = "done", ![w].completion = "applied"]
       \/ /\ UNCHANGED jobs
          /\ workers' = [workers EXCEPT ![w].pc = "done", ![w].completion = "rejected"]
    /\ UNCHANGED <<crawl, poolVars, callVars, documents>>

\* Cancellation from outside the workers: the row of a job that is not yet
\* terminal is set to FAILED.
ExternalFail(j) ==
    /\ jobs[j].status \in {"DISCOVERING", "PENDING", "IN_PROGRESS"}
    /\ jobs' = [jobs EXCEPT ![j].status = "FAILED"]
    /\ UNCHANGED <<crawl, poolVars, callVars, ingestVars>>

\* ------------------------------------------------------------ scrapeWebsite
\* One call scrapeWebsite(url, kb, retries) and the calls it makes of itself.
\* frames[k] is the k-th call: "running" (in its try or catch), "closing"
\* (its finally awaits page.close()), "returned" (its finally ended) or
\* "rejected" (page.close() rejected).  pc, page and retries belong to the
\* running call; attempts counts page.goto() calls; history is read by no
\* action and lists how the attempts ended; intercepting tells whether the
\* page that the running call got last has the request interceptor of lines
\* 347-356, contentType is the header of the latest response (line 364).
IdleScrape ==
    [pc |-> "idle", url |-> NoUrl, retries0 |-> 0, retries |-> 0, attempts |-> 0,
     frames |-> <<>>, page |-> FALSE, intercepting |-> FALSE, value |-> "none",
     history |-> <<>>, contentType |-> NoContentType]

CalledScrape(url, retries) ==
    [IdleScrape EXCEPT !.pc = "getPage", !.url = url, !.retries0 = retries,
                       !.retries = retries, !.frames = <<"running">>]

InitScrapeIdle == scrape = IdleScrape

\* The running call leaves its try or catch by `return`: finally runs.
FrameLeaves(sc) ==
    [sc.frames EXCEPT ![Len(sc.frames)] = IF sc.page THEN "closing" ELSE "returned"]

\* The call ends an attempt with `return value` (lines 367, 400, 425).
ScrapeReturn(sc, value, how) ==
    [sc EXCEPT !.pc = "finished", !.value = value, !.frames = FrameLeaves(sc),
               !.page = FALSE, !.history = Append(sc.history, how)]

\* A throw inside try goes to the catch at 427.
ScrapeThrow(sc) ==
    [sc EXCEPT !.pc = "catch", !.history = Append(sc.history, "threw")]

\* Line 431: retries > 0
Retries(sc) == sc.retries > 0

\* Line 344: browserPool.getPage() resolves or rejects.
ScrapeGetPage ==
    /\ scrape.pc = "getPage"
    /\ \/ scrape' = [scrape EXCEPT !.pc = "goto", !.page = TRUE,
                                   !.intercepting = FALSE]
       \/ scrape' = ScrapeThrow(scrape)
    /\ UNCHANGED allButScrape

\* Lines 347-425: request interception, navigation, classifier, extraction.
ScrapeGoto ==
    /\ scrape.pc = "goto"
    /\ \/ \* setRequestInterception rejects before the navigation
          scrape' = ScrapeThrow(scrape)
       \/ \* page.goto rejects or times out, or a later page call throws
          scrape' = ScrapeThrow([scrape EXCEPT !.attempts = scrape.attempts + 1,
                                               !.intercepting = TRUE])
       \/ \E contentType \in ContentTypes :
             LET sc == [scrape EXCEPT !.attempts = scrape.attempts + 1,
                                      !.intercepting = TRUE,
                                      !.contentType = contentType] IN
             IF ~isLikelyContentUrl(sc.url, contentType)
             THEN scrape' = ScrapeReturn(sc, "null", "skipped")
             ELSE \E contentLength \in ContentLengths :
                     scrape' = ScrapeReturn(sc, ScrapeReturns(contentLength),
                                   IF ScrapeReturns(contentLength) = "null"
                                   THEN "empty" ELSE "ok")
    /\ UNCHANGED allButScrape

\* Lines 427-436: the catch either returns the promise of a new call, which
\* has started by then, or returns null; the finally of this call follows.
ScrapeCatch ==
    /\ scrape.pc = "catch"
    /\ scrape' =
          IF Retries(scrape)
          THEN [scrape EXCEPT !.pc = "getPage", !.retries = scrape.retries - 1,
                              !.frames = Append(FrameLeaves(scrape), "running"),
                              !.page = FALSE]
          ELSE [scrape EXCEPT !.pc = "finished", !.value = "null",
                              !.frames = FrameLeaves(scrape), !.page = FALSE]
    /\ UNCHANGED allButScrape

\* Lines 437-441: page.close() of call k resolves or rejects.
ScrapeClosePage(k) ==
    /\ k \in 1..Len(scrape.frames)
    /\ scrape.frames[k] = "closing"
    /\ \E result \in {"returned", "rejected"} :
          scrape' = [scrape EXCEPT !.frames[k] = result]
    /\ UNCHANGED allButScrape

\* What the caller's await of scrapeWebsite has by now: the first call's
\* promise rejects when its finally rejects, and otherwise follows the value
\* it returned, which is the next call's promise or the last call's value.
RECURSIVE FrameOutcome(_, _)
FrameOutcome(sc, k) ==
    IF sc.frames[k] = "rejected" THEN "threw"
    ELSE IF sc.frames[k] \in {"running", "closing"} THEN "pending"
    ELSE IF k = Len(sc.frames) THEN sc.value
    ELSE FrameOutcome(sc, k + 1)

ScrapeOutcome(sc) == IF sc.pc = "idle" THEN "pending" ELSE FrameOutcome(sc, 1)

\* ------------------------------------------ createDocument, processDocument
DocIds == {"d1", "d2"}

\* No row: createDocument has not been called for d.  chunkRows lists the
\* chunkIndex of the document_chunks rows in insertion order; chunks is
\* chunks.length, index the loop variable; cause is the error caught at
\* line 234, thrown the error that processDocument rejects with; del is the
\* position of the latest deleteDocument call for d.
NoDocument ==
    [status |-> "none", chunkCount |-> 0, errorMessage |-> "", chunkRows |-> <<>>,
     pc |-> "none", chunks |-> 0, index |-> 0, cause |-> "none", thrown |-> "none",
     del |-> "none"]

\* The row of d is in the Document table.
RowExists(doc) == doc.status # "none"

InitDocsNone == kbDocs = [d \in DocIds |-> NoDocument]

\* ------------------------------------------------------ splitTextIntoChunks
\* A text is a sequence of characters; positions count from 0 as in the code.
Chars == {"a", ";", " ", "."}

Texts == UNION {[1..n -> Chars] : n \in 0..MaxTextLen}

\* "A. B. C. D."
ExampleText == <<"A", ".", " ", "B", ".", " ", "C", ".", " ", "D", ".">>

\* Line 255.
separators ==
    << <<"\n", "\n">>, <<"\n">>, <<".", " ">>, <<"!", " ">>, <<"?", " ">>,
       <<";">>, <<":">>, <<" ">>, <<>> >>

Min(a, b) == IF a < b THEN a ELSE b

Max(a, b) == IF a >= b THEN a ELSE b

\* String.prototype.substring(a, b): both ends clamped to 0..length, and
\* swapped when a > b.
Substring(text, a, b) ==
    LET ca == Min(Max(a, 0), Len(text))
        cb == Min(Max(b, 0), Len(text))
    IN  SubSeq(text, Min(ca, cb) + 1, Max(ca, cb))

\* String.prototype.lastIndexOf(sep): the last position where sep starts,
\* or -1.
LastIndexOf(text, sep) ==
    LET at == {i \in 0..(Len(text) - Len(sep)) :
                 SubSeq(text, i + 1, i + Len(sep)) = sep}
    IN  IF at = {} THEN -1 ELSE CHOOSE i \in at : \A k \in at : k <= i

\* String.prototype.slice(a, b): a negative end counts from the length, both
\* ends are clamped to 0..length, and the result is empty when a >= b.
Slice(text, a, b) ==
    LET ca == IF a < 0 THEN Max(Len(text) + a, 0) ELSE Min(a, Len(text))
        cb == IF b < 0 THEN Max(Len(text) + b, 0) ELSE Min(b, Len(text))
    IN  SubSeq(text, ca + 1, cb)

\* Lines 339-346: where the separator ends that is found last in the search
\* window, or -1.
RelativeIndex(text, currentStart, potentialEnd, sep) ==
    LET from == Max(currentStart, potentialEnd - SearchBack)
        lastIndexOfSep ==
            LastIndexOf(Substring(text, from, potentialEnd + Len(sep)), sep)
    IN  IF lastIndexOfSep = -1 THEN -1 ELSE from + lastIndexOfSep + Len(sep)

\* Line 347.
SeparatorFits(text, currentStart, potentialEnd, k) ==
    LET sep == separators[k]
        relativeIndex == RelativeIndex(text, currentStart, potentialEnd, sep)
    IN  /\ sep # <<>>
        /\ relativeIndex # -1
        /\ relativeIndex > currentStart
        /\ relativeIndex <= potentialEnd + Len(sep)

PotentialEndLate(text, chunkSize, currentStart) ==
    Min(currentStart + chunkSize + 3, Len(text))

\* Line 330.
PotentialEnd(text, chunkSize, currentStart) ==
    Min(currentStart + chunkSize, Len(text))

\* Lines 330-354: the end of the chunk that starts at currentStart.
ChunkEnd(text, chunkSize, currentStart) ==
    LET potentialEnd == PotentialEnd(text, chunkSize, currentStart)
        fits == {k \in 1..Len(separators) :
                   SeparatorFits(text, currentStart, potentialEnd, k)}
    IN  IF potentialEnd < Len(text) /\ fits # {}
        THEN RelativeIndex(text, currentStart, potentialEnd,
                           separators[CHOOSE k \in fits : \A m \in fits : k <= m])
        ELSE potentialEnd

NextStartUnforced(chunkSize, overlap, currentStart, chunkEnd) ==
    chunkEnd - overlap

\* Lines 369-374 and 394: the start of the next chunk.
NextStart(chunkSize, overlap, currentStart, chunkEnd) ==
    IF chunkEnd - overlap <= currentStart
    THEN currentStart + (chunkSize \div 2)
    ELSE chunkEnd - overlap

IdleSplit ==
    [pc |-> "idle", text |-> <<>>, chunkSize |-> 1, overlap |-> 0,
     currentStart |-> 0, chunks |-> <<>>]

\* Lines 246-326: the call has reached the loop.
CalledSplit(text, chunkSize, overlap) ==
    [pc |-> "loop", text |-> text, chunkSize |-> chunkSize, overlap |-> overlap,
     currentStart |-> 0, chunks |-> <<>>]

InitSplitIdle == split = IdleSplit

WindowOpenAtEnd(sp) == sp.currentStart <= Len(sp.text)

\* Line 328: while (currentStart < text.length)
WindowOpen(sp) == sp.currentStart < Len(sp.text)

\* Lines 328-398: one pass of the while loop, or its end.
SplitIterate ==
    /\ split.pc = "loop"
    /\ IF WindowOpen(split)
       THEN LET chunkEnd == ChunkEnd(split.text, split.chunkSize, split.currentStart)
                pushed == Append(split.chunks,
                                 [text |-> Slice(split.text, split.currentStart, chunkEnd),
                                  startChar |-> split.currentStart, endChar |-> chunkEnd])
            IN  IF chunkEnd >= Len(split.text)
                THEN split' = [split EXCEPT !.chunks = pushed, !.pc = "returned"]
                ELSE split' = [split EXCEPT
                        !.chunks = pushed,
                        !.currentStart = NextStart(split.chunkSize, split.overlap,
                                                   split.currentStart, chunkEnd)]
       ELSE split' = [split EXCEPT !.pc = "returned"]
    /\ UNCHANGED allButSplit

\* ------------------------------------------------- the KnowledgeBase table
\* kb1 is the knowledge base of the jobs and documents; kb2 has none.
AllKbIds == {"kb1", "kb2"}

\* The knowledgeBaseId that createDocument is called with for d.
DocKnowledgeBase(d) == "kb1"

IdleSearch == [pc |-> "idle", kb |-> "", limit |-> 0, results |-> <<>>]

\* Every knowledge base exists and is live; no search has been made.
InitStoreIdle ==
    /\ kbs = [kb \in AllKbIds |-> [deleted |-> FALSE]]
    /\ search = IdleSearch

InitCallVars == InitScrapeIdle /\ InitDocsNone /\ InitSplitIdle /\ InitStoreIdle

\* Lines 154-164: the row that prisma.document.create() makes.
CreatedDocument(chunks) ==
    [NoDocument EXCEPT !.status = "PROCESSING", !.pc = "find", !.chunks = chunks]

\* knowledgeBase.service.ts 145-168: the knowledge base is found live (the
\* call throws otherwise), the row is created with PROCESSING and
\* processDocument is called without being awaited; chunks is the number of
\* chunks that the content will split into.
DocCreate(d, chunks) ==
    /\ kbDocs[d].pc = "none"
    /\ ~kbs[DocKnowledgeBase(d)].deleted
    /\ kbDocs' = [kbDocs EXCEPT ![d] = CreatedDocument(chunks)]
    /\ UNCHANGED allButDocs

\* part_004 667-690 with createDocument (knowledgeBase.service.ts 145-180):
\* the pass of IngestSave with the row of the created Document followed: the
\* row d is PROCESSING, processDocument is called without being awaited, and
\* createDocument returns to the loop.
IngestSaveProcessing(w) ==
    \/ \E d \in DocIds, chunks \in 0..MaxChunks :
          /\ kbDocs[d].pc = "none"
          /\ IngestSaveRows(w, TRUE)
          /\ kbDocs' = [kbDocs EXCEPT ![d] = CreatedDocument(chunks)]
          /\ UNCHANGED <<crawl, jobs, poolVars, scrape, split, storeVars>>
    \/ /\ IngestSaveRows(w, FALSE)
       /\ UNCHANGED <<crawl, jobs, poolVars, callVars>>

\* Line 200: index < chunks.length
LoopAt(doc, index) == IF index < doc.chunks THEN "embed" ELSE "complete"

\* Lines 188-196: findUnique resolves with the row, then the content is
\* split; or it resolves with null and processDocument returns; or it
\* rejects, outside the try.
DocFind(d) ==
    /\ kbDocs[d].pc = "find"
    /\ \/ /\ RowExists(kbDocs[d])
          /\ kbDocs' = [kbDocs EXCEPT ![d].pc = LoopAt(kbDocs[d], 0), ![d].index = 0]
       \/ /\ ~RowExists(kbDocs[d])
          /\ kbDocs' = [kbDocs EXCEPT ![d].pc = "done"]
       \/ kbDocs' = [kbDocs EXCEPT ![d].pc = "handler", ![d].thrown = "find"]
    /\ UNCHANGED allButDocs

\* Lines 201-202: generateEmbedding for chunks[index] resolves or rejects.
DocEmbed(d) ==
    /\ kbDocs[d].pc = "embed"
    /\ \/ kbDocs' = [kbDocs EXCEPT ![d].pc = "insert"]
       \/ kbDocs' = [kbDocs EXCEPT ![d].pc = "catch", ![d].cause = "embedding"]
    /\ UNCHANGED allButDocs

\* The schema of document_chunks is not among the sources.  The data model
\* has a Document own its chunks: documentId refers to a row of the Document
\* table, so an INSERT for a document whose row is gone rejects, and the row
\* of a document goes only together with its chunk rows.
ChunkInsertUnconstrained(doc) == TRUE

ChunkInsertAccepted(doc) == RowExists(doc)

\* Lines 207-224: the INSERT of chunk index resolves or rejects.
DocInsert(d) ==
    /\ kbDocs[d].pc = "insert"
    /\ \/ /\ ChunkInsertAccepted(kbDocs[d])
          /\ kbDocs' = [kbDocs EXCEPT ![d].chunkRows = Append(@, kbDocs[d].index),
                               ![d].index = kbDocs[d].index + 1,
                               ![d].pc = LoopAt(kbDocs[d], kbDocs[d].index + 1)]
       \/ kbDocs' = [kbDocs EXCEPT ![d].pc = "catch", ![d].cause = "insert"]
    /\ UNCHANGED allButDocs

\* Line 231: chunkCount: chunks.length
ChunkCountWritten(doc) == doc.chunks

\* Lines 227-233: the update to COMPLETED is applied, or rejects (as it
\* does when the row is gone).
DocComplete(d) ==
    /\ kbDocs[d].pc = "complete"
    /\ \/ /\ RowExists(kbDocs[d])
          /\ kbDocs' = [kbDocs EXCEPT ![d].status = "COMPLETED",
                               ![d].chunkCount = ChunkCountWritten(kbDocs[d]),
                               ![d].pc = "done"]
       \/ kbDocs' = [kbDocs EXCEPT ![d].pc = "catch", ![d].cause = "update"]
    /\ UNCHANGED allButDocs

StatusAfterCatchCompleted(doc) == "COMPLETED"

\* Line 238: status: "FAILED"
StatusAfterCatch(doc) == "FAILED"

ErrorMessageWrittenEmpty(doc) == ""

\* Line 239: errorMessage: error.message
ErrorMessageWritten(doc) == doc.cause

\* Lines 234-243: the update to FAILED is applied and the caught error is
\* thrown again, or the update rejects and its error is thrown instead.
DocCatch(d) ==
    /\ kbDocs[d].pc = "catch"
    /\ \/ /\ RowExists(kbDocs[d])
          /\ kbDocs' = [kbDocs EXCEPT ![d].status = StatusAfterCatch(kbDocs[d]),
                               ![d].errorMessage = ErrorMessageWritten(kbDocs[d]),
                               ![d].thrown = kbDocs[d].cause,
                               ![d].pc = "handler"]
       \/ kbDocs' = [kbDocs EXCEPT ![d].thrown = "failedUpdate", ![d].pc = "handler"]
    /\ UNCHANGED allButDocs

\* Lines 168-177: the handler of createDocument logs the rejection and
\* builds an update to FAILED that it neither awaits nor returns: the
\* update is applied, or it is not (never sent, or rejected).
DocHandler(d) ==
    /\ kbDocs[d].pc = "handler"
    /\ \/ /\ RowExists(kbDocs[d])
          /\ kbDocs' = [kbDocs EXCEPT ![d].status = "FAILED",
                               ![d].errorMessage = kbDocs[d].thrown,
                               ![d].pc = "done"]
       \/ kbDocs' = [kbDocs EXCEPT ![d].pc = "done"]
    /\ UNCHANGED allButDocs

\* deleteDocument 507-519: findFirst finds the row.  (When it finds none
\* the call throws and nothing changes.)
DeleteFind(d) ==
    /\ kbDocs[d].del \in {"none", "rejected"}
    /\ RowExists(kbDocs[d])
    /\ kbDocs' = [kbDocs EXCEPT ![d].del = "chunks"]
    /\ UNCHANGED allButDocs

\* Lines 522-524: documentChunk.deleteMany removes the chunk rows of d, or
\* rejects and the call ends.
DeleteChunks(d) ==
    /\ kbDocs[d].del = "chunks"
    /\ \/ kbDocs' = [kbDocs EXCEPT ![d].chunkRows = <<>>, ![d].del = "document"]
       \/ kbDocs' = [kbDocs EXCEPT ![d].del = "rejected"]
    /\ UNCHANGED allButDocs

\* Lines 527-531: document.delete removes the row, and with it the chunk
\* rows inserted since line 522 (see ChunkInsertAccepted), or rejects and the
\* call ends.
DeleteRow(d) ==
    /\ kbDocs[d].del = "document"
    /\ \/ /\ RowExists(kbDocs[d])
          /\ kbDocs' = [kbDocs EXCEPT ![d].status = "none", ![d].chunkCount = 0,
                               ![d].errorMessage = "", ![d].chunkRows = <<>>,
                               ![d].del = "deleted"]
       \/ kbDocs' = [kbDocs EXCEPT ![d].del = "rejected"]
    /\ UNCHANGED allButDocs

\* -------------------------------------------------------------- browserPool
InitPoolVars ==
    /\ browser = "null"
    /\ callerPc = [p \in Callers |-> "idle"]

\* Line 23: !this.browser || !this.browser.isConnected()
NeedsLaunch(b) == b # "connected"

\* Lines 57-58 and 19-28: getPage() enters getBrowser(), which either starts
\* puppeteer.launch() and waits for it, or returns this.browser at once.
PoolGetBrowser(p) ==
    /\ callerPc[p] = "idle"
    /\ callerPc' = [callerPc EXCEPT ![p] =
                       IF NeedsLaunch(browser) THEN "launching" ELSE "newPage"]
    /\ UNCHANGED <<browser, jobVars>>

\* Lines 28-45 and 54: the launch resolves and is stored in this.browser.
PoolLaunchResolves(p) ==
    /\ callerPc[p] = "launching"
    /\ browser' = "connected"
    /\ callerPc' = [callerPc EXCEPT ![p] = "newPage"]
    /\ UNCHANGED jobVars

\* Lines 46-52: the launch rejects; getBrowser() and getPage() rethrow.
PoolLaunchRejects(p) ==
    /\ callerPc[p] = "launching"
    /\ callerPc' = [callerPc EXCEPT ![p] = "idle"]
    /\ UNCHANGED <<browser, jobVars>>

\* Line 59: browser.newPage() resolves with a page, or rejects.
PoolNewPage(p) ==
    /\ callerPc[p] = "newPage"
    /\ \E opened \in BOOLEAN :
          callerPc' = [callerPc EXCEPT ![p] = IF opened THEN "holding" ELSE "idle"]
    /\ UNCHANGED <<browser, jobVars>>

\* The caller's finally block: page.close() (lines 437-441 and 563-567).
PoolClosePage(p) ==
    /\ callerPc[p] = "holding"
    /\ callerPc' = [callerPc EXCEPT ![p] = "idle"]
    /\ UNCHANGED <<browser, jobVars>>

\* The browser process dies: isConnected() turns false (line 23 tests it).
BrowserDisconnects ==
    /\ browser = "connected"
    /\ browser' = "disconnected"
    /\ UNCHANGED <<callerPc, jobVars>>

LaunchesInFlight == Cardinality({p \in Callers : callerPc[p] = "launching"})
OpenPages == Cardinality({p \in Callers : callerPc[p] = "holding"})

\* ------------------------------------------- specification: one crawl alone
InitDisc ==
    /\ \E baseUrl \in BaseUrls, maxPages \in 0..MaxMaxPages, site \in Sites :
          crawl = [c \in CrawlIds |->
                      IF c = NoJob THEN CalledCrawl(baseUrl, maxPages, site)
                      ELSE IdleCrawl]
    /\ jobs = [j \in JobIds |-> NoJobRow]
    /\ InitPoolVars
    /\ InitCallVars
    /\ InitIngestVars

NextDisc ==
    \/ DiscBegin(NoJob)
    \/ DiscReturn(NoJob)
    \/ DiscDequeue(NoJob)
    \/ DiscGetPage(NoJob)
    \/ DiscGoto(NoJob)
    \/ DiscClosePage(NoJob)

SpecDisc == InitDisc /\ [][NextDisc]_vars

\* C8: whenever dynamicUrlDiscovery returns, baseUrl is in the returned set,
\* also when the fetch of baseUrl failed or its Content-Type was rejected.
C8_BaseUrlInResult ==
    crawl[NoJob].pc = "returned" => crawl[NoJob].baseUrl \in crawl[NoJob].discovered

\* C8 witness: a crawl that returned after the fetch of baseUrl failed or was
\* rejected on its Content-Type.
C8_Witness ==
    /\ crawl[NoJob].pc = "returned"
    /\ crawl[NoJob].baseFetch \in {"failed", "rejected"}
    /\ crawl[NoJob].baseUrl \in crawl[NoJob].discovered

\* Position of a crawl inside one pass of its loop, counted down.
StageRank(pc) ==
    CASE pc \in {"start", "update"} -> 5
      [] pc = "getPage" -> 4
      [] pc = "goto" -> 3
      [] pc = "close" -> 2
      [] pc = "loop" -> 1
      [] OTHER -> 0

\* No queue of the model is this long.
QueueWeight == BigFanout + Len(SmallLinks) + 2

\* A number that every step of the crawl decreases: the passes left under the
\* page cap, then the stage inside the pass, then the queue still to skip.
CrawlMeasure ==
    LET d == crawl[NoJob] IN
    (maxCrawlPages(d.maxPages) - d.processedCount) * 6 * QueueWeight
        + StageRank(d.pc) * QueueWeight
        + (IF d.pc = "loop" THEN Len(d.queue) ELSE 0)

\* C9: the crawl never fetches more than maxCrawlPages pages (maxPages if
\* > 0, else 500), and it cannot run forever: every step it takes, on any
\* site, strictly decreases CrawlMeasure, which is never negative.
C9_FetchesBoundedAndTerminates ==
    /\ [](/\ crawl[NoJob].fetched <= maxCrawlPages(crawl[NoJob].maxPages)
          /\ CrawlMeasure >= 0)
    /\ [][CrawlMeasure' < CrawlMeasure]_vars

\* C9 witness: a crawl that returned because it had fetched maxCrawlPages
\* pages, with discovered URLs still waiting in the queue.
C9_Witness ==
    /\ crawl[NoJob].pc = "returned"
    /\ crawl[NoJob].fetched = maxCrawlPages(crawl[NoJob].maxPages)
    /\ Len(crawl[NoJob].queue) > 0

\* C11: every URL in discoveredUrls and in the crawl queue has the hostname
\* of baseUrl at every point of the crawl, and on the three-page site the
\* crawl from / returns exactly {/, /a, /b}.
C11_ResultSharesBaseHost ==
    LET d == crawl[NoJob] IN
    /\ \A url \in d.discovered \cup Range(d.queue) : url.host = d.baseUrl.host
    /\ (d.pc = "returned" /\ d.site = "three" /\ d.baseUrl = UrlRoot) =>
          d.discovered = {UrlRoot, UrlA, UrlB}

\* C11 witness: the crawl of the three-page site from / returned after it
\* fetched all three pages, /a with its link to the other host among them.
C11_Witness ==
    LET d == crawl[NoJob] IN
    /\ d.pc = "returned" /\ d.site = "three" /\ d.baseUrl = UrlRoot
    /\ d.visited = {UrlRoot, UrlA, UrlB}
    /\ d.fetched = 3
    /\ UrlExternal \notin d.discovered

\* C12 (as claimed): every URL of the returned set, baseUrl included,
\* satisfies isLikelyContentUrl(url).
C12_AllResultsLikelyContent ==
    LET d == crawl[NoJob] IN
    d.pc = "returned" =>
        \A url \in d.discovered : isLikelyContentUrl(url, NoContentType)

\* C12 (amended): every URL of the returned set other than baseUrl satisfies
\* isLikelyContentUrl(url), also the URLs whose fetched page the classifier
\* rejected on its Content-Type.
C12_LinkedResultsLikelyContent ==
    LET d == crawl[NoJob] IN
    d.pc = "returned" =>
        \A url \in d.discovered \ {d.baseUrl} :
            isLikelyContentUrl(url, NoContentType)

\* C12 witness: a returned set with a URL other than baseUrl whose page was
\* fetched and rejected by the classifier.
C12_Witness ==
    LET d == crawl[NoJob] IN
    /\ d.pc = "returned"
    /\ d.linkRejected
    /\ d.discovered \ {d.baseUrl} # {}

\* C14 (as claimed): after the navigation to a URL has failed, the crawl
\* goes back to its loop with the queue as it was and with every URL
\* discovered so far.
C14_FetchFailureDoesNotEndCrawl ==
    [][(crawl[NoJob].pc = "close" /\ crawl[NoJob].gotoFailed) =>
          /\ crawl'[NoJob].pc = "loop"
          /\ crawl'[NoJob].queue = crawl[NoJob].queue
          /\ crawl'[NoJob].discovered = crawl[NoJob].discovered]_vars


\* C31 (as claimed): every page that navigates, in dynamicUrlDiscovery as in
\* scrapeWebsite, has the request interceptor installed by then.
C31_PagesInterceptBeforeNavigation ==
    [][/\ \A c \in CrawlIds :
             crawl'[c].fetched > crawl[c].fetched => crawl[c].intercepting
       /\ scrape'.attempts > scrape.attempts => scrape'.intercepting]_vars

\* C10 (as claimed): the returned set has at most max(maxPages, 500) URLs.
C10_ResultAtMostCap ==
    crawl[NoJob].pc = "returned" =>
        Cardinality(crawl[NoJob].discovered)
            <= Max(crawl[NoJob].maxPages, DefaultCrawlPages)

\* ------------------------------------------ specification: the browser pool
InitJobVarsIdle ==
    /\ crawl = [c \in CrawlIds |-> IdleCrawl]
    /\ jobs = [j \in JobIds |-> NoJobRow]
    /\ InitIngestVars

InitPool == InitPoolVars /\ InitJobVarsIdle /\ InitCallVars

NextPool ==
    \/ \E p \in Callers : PoolGetBrowser(p)
    \/ \E p \in Callers : PoolLaunchResolves(p)
    \/ \E p \in Callers : PoolLaunchRejects(p)
    \/ \E p \in Callers : PoolNewPage(p)
    \/ \E p \in Callers : PoolClosePage(p)
    \/ BrowserDisconnects

SpecPool == InitPool /\ [][NextPool]_vars

\* C6 (as claimed): at most one puppeteer.launch() is in flight at any time.
C6_AtMostOneLaunchInFlight == LaunchesInFlight <= 1

\* C7 (as claimed): at most browserPool.maxPages pages obtained from the pool
\* are open at any time.
C7_AtMostMaxPagesOpen == OpenPages <= poolMaxPages

\* -------------------------------------- specification: jobs and ingestion
\* The selectedUrls lists given to startScrapingJob.
RECURSIVE SeqsUpTo(_, _)
SeqsUpTo(S, n) ==
    IF n = 0 THEN {<<>>}
    ELSE LET shorter == SeqsUpTo(S, n - 1) IN
         shorter \cup {Append(q, x) : q \in shorter, x \in S}

\* Lists that differ only by which URL comes first behave alike, so the
\* non-empty ones start with UrlRoot.
SelectedLists == {q \in SeqsUpTo(SelectableUrls, MaxSelected) : Len(q) = 0 \/ q[1] = UrlRoot}

JobBaseUrls == {UrlRoot, NoUrl}
JobSites == {"wide"}

InitJob ==
    /\ crawl = [c \in CrawlIds |-> IdleCrawl]
    /\ jobs = [j \in JobIds |-> NoJobRow]
    /\ InitPoolVars
    /\ InitCallVars
    /\ InitIngestVars

NextJob ==
    \/ \E j \in JobIds, baseUrl \in JobBaseUrls, kb \in KbIds,
          maxPages \in 1..MaxMaxPages, site \in JobSites :
          createScrapeJob(j, baseUrl, kb, maxPages, site)
    \/ \E j \in JobIds : DiscBegin(j)
    \/ \E j \in JobIds : DiscReturn(j)
    \/ \E j \in JobIds : DiscDequeue(j)
    \/ \E j \in JobIds : DiscProgressWrite(j)
    \/ \E j \in JobIds : DiscGetPage(j)
    \/ \E j \in JobIds : DiscGoto(j)
    \/ \E j \in JobIds : DiscClosePage(j)
    \/ \E j \in JobIds : DiscoveryCompletes(j)
    \/ \E j \in JobIds : DiscoveryFallsBack(j)
    \/ \E j \in JobIds, selectedUrls \in SelectedLists : startScrapingJob(j, selectedUrls)
    \/ \E w \in WorkerIds : IngestScrape(w)
    \/ \E w \in WorkerIds : IngestSave(w)
    \/ \E w \in WorkerIds : IngestProgressWrite(w)
    \/ \E w \in WorkerIds : IngestComplete(w)

SpecJob == InitJob /\ [][NextJob]_vars

\* The order of the statuses that a job goes through.
StatusRank(status) ==
    CASE status = "DISCOVERING" -> 1
      [] status = "PENDING" -> 2
      [] status = "IN_PROGRESS" -> 3
      [] status = "COMPLETED" -> 4
      [] OTHER -> 0

IsTerminal(status) == status \in {"COMPLETED", "FAILED"}

\* C1 (as claimed): a job's stored status never moves backward in
\* DISCOVERING < PENDING < IN_PROGRESS < COMPLETED (a move to FAILED aside),
\* and a status of COMPLETED or FAILED never changes again.
C1_StatusNeverMovesBackward ==
    [][\A j \in JobIds :
          jobs[j].status # "none" =>
             /\ IsTerminal(jobs[j].status) => jobs'[j].status = jobs[j].status
             /\ (~IsTerminal(jobs[j].status) /\ jobs'[j].status # "FAILED") =>
                    StatusRank(jobs'[j].status) >= StatusRank(jobs[j].status)]_vars

\* C2 (as claimed): a job's status becomes IN_PROGRESS only from PENDING,
\* after the job's discovery callback has finished.
C2_InProgressOnlyFromPending ==
    [][\A j \in JobIds :
          (jobs[j].status # "IN_PROGRESS" /\ jobs'[j].status = "IN_PROGRESS") =>
             (jobs[j].status = "PENDING" /\ crawl[j].pc = "done")]_vars

\* C5 (as claimed): the stored totalUrls and scrapedCount of a job never
\* decrease from one write of the job's row to the next.
C5_ProgressNeverDecreases ==
    [][\A j \in JobIds :
          jobs[j].status # "none" =>
             /\ jobs'[j].totalUrls >= jobs[j].totalUrls
             /\ jobs'[j].scrapedCount >= jobs[j].scrapedCount]_vars

\* C13 (as claimed): when browserPool.getPage() has thrown during a job's
\* discovery, the crawl does not return normally, and the write that ends
\* the discovery callback leaves PENDING, discoveredUrls = [baseUrl] and
\* totalUrls = 1.
C13_PoolFailureFallsBack ==
    \A j \in JobIds :
       crawl[j].poolFailed =>
          /\ crawl[j].pc # "returned"
          /\ (crawl[j].pc = "done" /\ jobs[j].status = "PENDING") =>
                (jobs[j].discoveredUrls = {jobs[j].baseUrl} /\ jobs[j].totalUrls = 1)

\* ------------------ specification: createScrapeJob with a store that writes
\* A job is created for a site whose browser calls may fail at any point, or
\* for a baseUrl that does not parse; every write of the job's row by the
\* discovery callback is applied.  startScrapingJob may be called at any time.
NextDiscover ==
    \/ \E j \in JobIds, baseUrl \in JobBaseUrls, kb \in KbIds,
          maxPages \in 0..MaxMaxPages, site \in UnstableSites :
          createScrapeJob(j, baseUrl, kb, maxPages, site)
    \/ \E j \in JobIds : DiscBegin(j)
    \/ \E j \in JobIds : DiscReturn(j)
    \/ \E j \in JobIds : DiscDequeue(j)
    \/ \E j \in JobIds : DiscGetPage(j)
    \/ \E j \in JobIds : DiscGoto(j)
    \/ \E j \in JobIds : DiscClosePage(j)
    \/ \E j \in JobIds : DiscoveryCompletes(j)
    \/ \E j \in JobIds : DiscoveryFallsBack(j)
    \/ \E j \in JobIds : startScrapingJob(j, <<UrlRoot>>)
    \/ \E w \in WorkerIds : IngestScrape(w)
    \/ \E w \in WorkerIds : IngestSave(w)
    \/ \E w \in WorkerIds : IngestProgressWrite(w)
    \/ \E w \in WorkerIds : IngestComplete(w)

\* The callback scheduled by setImmediate runs, and each browser call and
\* each write that it awaits settles.
FairDiscover ==
    \A j \in JobIds :
       /\ WF_vars(DiscBegin(j))
       /\ WF_vars(DiscReturn(j))
       /\ WF_vars(DiscDequeue(j))
       /\ WF_vars(DiscGetPage(j))
       /\ WF_vars(DiscGoto(j))
       /\ WF_vars(DiscClosePage(j))
       /\ WF_vars(DiscoveryCompletes(j))
       /\ WF_vars(DiscoveryFallsBack(j))

SpecDiscover == InitJob /\ [][NextDiscover]_vars /\ FairDiscover

\* C32: a job that is DISCOVERING is PENDING at some later point, whether the
\* crawl returns, every page fetch fails, or the crawl throws.
C32_DiscoveringLeadsToPending ==
    \A j \in JobIds : (jobs[j].status = "DISCOVERING") ~> (jobs[j].status = "PENDING")

\* C32 witness: the job is PENDING after a crawl whose only fetch failed.
C32_Witness ==
    \E j \in JobIds :
       /\ jobs[j].status = "PENDING" /\ crawl[j].pc = "done"
       /\ crawl[j].baseFetch = "failed" /\ crawl[j].fetched = 1
       /\ jobs[j].discoveredUrls = {jobs[j].baseUrl}

\* ------------------------------------------ specification: ingestion only
\* The row that the fallback write of createScrapeJob leaves (lines 624-632)
\* for a job whose discovery threw.
FallbackRow(baseUrl, knowledgeBaseId, maxPages) ==
    [NoJobRow EXCEPT !.status = "PENDING", !.baseUrl = baseUrl,
                     !.maxPages = maxPages, !.knowledgeBaseId = knowledgeBaseId,
                     !.discoveredUrls = {baseUrl}, !.totalUrls = 1]

InitIngest ==
    /\ crawl = [c \in CrawlIds |->
                   IF c \in JobIds THEN [IdleCrawl EXCEPT !.pc = "done"]
                   ELSE IdleCrawl]
    /\ \E kb \in KbIds :
          jobs = [j \in JobIds |-> FallbackRow(UrlRoot, kb, 0)]
    /\ InitPoolVars
    /\ InitCallVars
    /\ InitIngestVars

\* startScrapingJob(j, selectedUrls) has returned (lines 643-655 and 720) for
\* a job left PENDING by the fallback write; its callback is about to run.
InitStarted(selectedUrls) ==
    /\ crawl = [c \in CrawlIds |->
                   IF c \in JobIds THEN [IdleCrawl EXCEPT !.pc = "done"]
                   ELSE IdleCrawl]
    /\ \E kb \in KbIds :
          /\ jobs = [j \in JobIds |->
                        [FallbackRow(UrlRoot, kb, 0) EXCEPT
                            !.status = "IN_PROGRESS", !.selectedUrls = selectedUrls,
                            !.totalUrls = Len(selectedUrls)]]
          /\ workers = [w \in WorkerIds |->
                           [FreeWorker EXCEPT
                               !.pc = IF Len(selectedUrls) = 0 THEN "complete"
                                      ELSE "scrape",
                               !.job = "j1", !.knowledgeBaseId = kb,
                               !.selectedUrls = selectedUrls, !.idx = 1,
                               !.starts = MaxStarts]]
    /\ documents = [k \in DocumentKeys |-> 0]
    /\ InitPoolVars
    /\ InitCallVars

NextIngest ==
    \/ \E j \in JobIds, selectedUrls \in SeqsUpTo(SelectableUrls, MaxSelected) :
          startScrapingJob(j, selectedUrls)
    \/ \E w \in WorkerIds : IngestScrape(w)
    \/ \E w \in WorkerIds : IngestSave(w)
    \/ \E w \in WorkerIds : IngestProgressWrite(w)
    \/ \E w \in WorkerIds : IngestComplete(w)

SpecIngest == InitIngest /\ [][NextIngest]_vars

\* ------------------------------- specification: ingestion runs that go on
\* startScrapingJob has set the job IN_PROGRESS for any of the selections, or
\* for the five pages.
InitRun == \E selectedUrls \in SelectedLists \cup {FiveUrls} : InitStarted(selectedUrls)

NextRun ==
    \/ \E w \in WorkerIds : IngestScrape(w)
    \/ \E w \in WorkerIds : IngestSave(w)
    \/ \E w \in WorkerIds : IngestProgressWrite(w)
    \/ \E w \in WorkerIds : IngestComplete(w)

\* The callback scheduled by setImmediate at line 655 runs, and each call
\* that it awaits settles.
FairRun ==
    \A w \in WorkerIds :
       /\ WF_vars(IngestScrape(w))
       /\ WF_vars(IngestSave(w))
       /\ WF_vars(IngestProgressWrite(w))
       /\ WF_vars(IngestComplete(w))

SpecRun == InitRun /\ [][NextRun]_vars /\ FairRun

\* The update of lines 708-715 of the latest run of job j was rejected.
CompletionRejected(j) ==
    \E w \in WorkerIds : workers[w].job = j /\ workers[w].completion = "rejected"

C25_SelectedUrlsWereDiscovered ==
    \A j \in JobIds :
       jobs[j].status # "none" =>
          Range(jobs[j].selectedUrls) \subseteq jobs[j].discoveredUrls

\* C26 (as claimed): the scrapedCount of every stored job is at most the
\* number of distinct URLs of its selectedUrls.
C26_ScrapedCountAtMostDistinctSelected ==
    \A j \in JobIds :
       jobs[j].status # "none" =>
          jobs[j].scrapedCount <= Cardinality(Range(jobs[j].selectedUrls))

\* ------------------------------------------------------ deleteKnowledgeBase
\* knowledgeBase.service.ts 81-112: the live row is found (the call throws
\* otherwise), no agent uses it (the call throws otherwise; agentsUsingKB is
\* the count read at 91), and deletedAt is set, or the update rejects.
deleteKnowledgeBase(kb, agentsUsingKB) ==
    /\ ~kbs[kb].deleted
    /\ agentsUsingKB = 0
    /\ \/ kbs' = [kbs EXCEPT ![kb].deleted = TRUE]
       \/ UNCHANGED kbs
    /\ UNCHANGED allButKbs

\* ------------------------- specification: ingestion and deleteKnowledgeBase
NextKb ==
    \/ NextIngest
    \/ \E kb \in AllKbIds, agentsUsingKB \in 0..1 : deleteKnowledgeBase(kb, agentsUsingKB)

SpecKb == InitIngest /\ [][NextKb]_vars

\* C29 (as claimed): deleteKnowledgeBase sets deletedAt only when no job of
\* the knowledge base is DISCOVERING, PENDING or IN_PROGRESS.
C29_NoDeleteWhileJobRuns ==
    [][\A kb \in AllKbIds :
          (~kbs[kb].deleted /\ kbs'[kb].deleted) =>
             \A j \in JobIds :
                jobs[j].knowledgeBaseId = kb =>
                   jobs[j].status \notin {"DISCOVERING", "PENDING", "IN_PROGRESS"}]_vars

\* C38 (as claimed): when the run of a job has marked it COMPLETED, the
\* stored scrapedCount is the number of Documents that the run created.
C38_ScrapedCountIsDocumentsCreated ==
    \A w \in WorkerIds :
       (workers[w].pc = "done" /\ workers[w].completion = "applied") =>
          jobs[workers[w].job].scrapedCount = workers[w].savedCount

\* ------------------------------- specification: ingestion and cancellation
NextCancel ==
    \/ NextIngest
    \/ \E j \in JobIds : ExternalFail(j)

SpecCancel == InitIngest /\ [][NextCancel]_vars

\* The ingestion callback of slot w is scheduled or inside its loop.
WorkerRunning(w) == workers[w].pc \notin {"free", "done"}

\* C4 (as claimed): once the status of a job whose ingestion callback is
\* running is FAILED, the callback does not overwrite it: the job stays
\* FAILED.
C4_FailedStaysFailedUnderWorker ==
    [][\A w \in WorkerIds :
          (WorkerRunning(w) /\ jobs[workers[w].job].status = "FAILED") =>
             jobs'[workers[w].job].status = "FAILED"]_vars

\* ------------------------------------------- specification: scrapeWebsite
ScrapeUrls == {UrlRoot, UrlAdmin, UrlRepeatedParam, UrlSixParams}

InitScrape ==
    /\ crawl = [c \in CrawlIds |-> IdleCrawl]
    /\ jobs = [j \in JobIds |-> NoJobRow]
    /\ InitPoolVars
    /\ InitIngestVars
    /\ \E url \in ScrapeUrls, retries \in 0..DefaultRetries :
          scrape = CalledScrape(url, retries)
    /\ InitDocsNone
    /\ InitSplitIdle
    /\ InitStoreIdle

NextScrape ==
    \/ ScrapeGetPage
    \/ ScrapeGoto
    \/ ScrapeCatch
    \/ \E k \in 1..(DefaultRetries + 1) : ScrapeClosePage(k)

SpecScrape == InitScrape /\ [][NextScrape]_vars

\* C16 (as claimed): scrapeWebsite(url, kb, 2) navigates at most 3 times; an
\* attempt is followed by another exactly when it threw and retries remain;
\* and when every attempt has thrown the call returns null, it does not
\* throw.
C16_ThreeAttemptsThenNull ==
    LET sc == scrape
        n == Len(sc.history)
    IN  sc.retries0 = DefaultRetries =>
           /\ sc.attempts <= DefaultRetries + 1
           /\ Len(sc.frames) <= DefaultRetries + 1
           /\ \A i \in 1..(n - 1) : sc.history[i] = "threw"
           /\ (sc.pc = "finished" /\ sc.history[n] = "threw") =>
                 n = DefaultRetries + 1
           /\ (sc.pc = "finished" /\ \A i \in 1..n : sc.history[i] = "threw") =>
                 ScrapeOutcome(sc) \in {"pending", "null"}

\* The pages of the scrapeWebsite call and of its retries that are open:
\* the page of the running call, and each page whose close() has not settled.
OpenScrapePages ==
    (IF scrape.page THEN 1 ELSE 0)
        + Cardinality({k \in 1..Len(scrape.frames) : scrape.frames[k] = "closing"})

\* C39 (as claimed): once the caller's await of scrapeWebsite has ended, with
\* a value or an error, no page that the call or its retries opened is open;
\* nor is a page of dynamicUrlDiscovery once it has returned or thrown.
C39_NoPageOpenWhenCallEnds ==
    /\ ScrapeOutcome(scrape) # "pending" => OpenScrapePages = 0
    /\ \A c \in CrawlIds : crawl[c].pc \in {"returned", "thrown", "done"} => ~crawl[c].page

\* C40 (as claimed): at most one page of a scrapeWebsite call and its
\* retries is open at any time.
C40_AtMostOnePageOpen == OpenScrapePages <= 1

\* Rules 1 to 4, or a URL that does not parse, reject the page at line 365.
OtherRuleRejects(url, contentType) ==
    \/ ~url.valid
    \/ Rule1Rejects(contentType)
    \/ Rule2Rejects(toLowerCase(url.path))
    \/ Rule3Rejects(toLowerCase(url.path))
    \/ Rule4Rejects(url.params)

\* C34 (as claimed): a fetched page that no other rule rejects is skipped by
\* the classifier exactly when its URL has more than five distinct query
\* parameter names.
C34_RejectsOnDistinctParamCount ==
    LET n == Len(scrape.history) IN
    (n > 0 /\ scrape.history[n] \in {"skipped", "empty", "ok"} /\
     ~OtherRuleRejects(scrape.url, scrape.contentType)) =>
        (scrape.history[n] = "skipped" <=>
            Cardinality(Range(scrape.url.params)) > MaxQueryParams)

\* ------------------------------------------------------ searchKnowledgeBase
\* The cosine distance, in tenths, of the query to chunk i of document d.
Distance(d, i) ==
    IF d = "d1" THEN (IF i = 0 THEN 7 ELSE 3)
    ELSE (IF i = 0 THEN 5 ELSE IF i = 1 THEN 3 ELSE 1)

SearchRowsAnyStatus(kb) ==
    {<<d, i>> \in DocIds \X (0..MaxChunks) :
        /\ RowExists(kbDocs[d])
        /\ DocKnowledgeBase(d) = kb
        /\ i \in Range(kbDocs[d].chunkRows)}

\* Lines 445-449: the chunk rows joined with their document, of the
\* knowledge base and COMPLETED.
SearchRows(kb) ==
    {<<d, i>> \in DocIds \X (0..MaxChunks) :
        /\ RowExists(kbDocs[d])
        /\ DocKnowledgeBase(d) = kb
        /\ kbDocs[d].status = "COMPLETED"
        /\ i \in Range(kbDocs[d].chunkRows)}

\* Lines 450-451: ORDER BY distance LIMIT limit: the lists of limit rows (or
\* of all rows, when there are fewer) in ascending distance that leave out
\* no row nearer than one they hold.
TopRows(rows, limit) ==
    {q \in SeqsUpTo(rows, limit) :
        /\ Len(q) = Min(limit, Cardinality(rows))
        /\ \A a, b \in 1..Len(q) : a < b => q[a] # q[b]
        /\ \A a, b \in 1..Len(q) :
              a < b => Distance(q[a][1], q[a][2]) <= Distance(q[b][1], q[b][2])
        /\ \A r \in rows \ Range(q) : \A a \in 1..Len(q) :
              Distance(q[a][1], q[a][2]) <= Distance(r[1], r[2])}

\* Lines 456-462: score = 1 - distance (in tenths).
ResultOf(row) ==
    [document |-> row[1], chunkIndex |-> row[2],
     score |-> 10 - Distance(row[1], row[2])]

\* Lines 410-463: the knowledge base is found (a missing one throws), the
\* query is embedded (or generateEmbedding rejects and the call throws) and
\* the one SELECT is answered from the rows as they are.
Search(kb, limit) ==
    /\ \/ \E q \in TopRows(SearchRows(kb), limit) :
             search' = [pc |-> "returned", kb |-> kb, limit |-> limit,
                        results |-> [k \in 1..Len(q) |-> ResultOf(q[k])]]
       \/ search' = [pc |-> "thrown", kb |-> kb, limit |-> limit, results |-> <<>>]
    /\ UNCHANGED allButSearch

\* ------------------------------ specification: createDocument and after
InitDoc ==
    /\ crawl = [c \in CrawlIds |-> IdleCrawl]
    /\ jobs = [j \in JobIds |-> NoJobRow]
    /\ InitPoolVars
    /\ InitIngestVars
    /\ InitScrapeIdle
    /\ InitDocsNone
    /\ InitSplitIdle
    /\ InitStoreIdle

NextDoc ==
    \/ \E d \in DocIds, chunks \in 0..MaxChunks : DocCreate(d, chunks)
    \/ \E d \in DocIds : DocFind(d)
    \/ \E d \in DocIds : DocEmbed(d)
    \/ \E d \in DocIds : DocInsert(d)
    \/ \E d \in DocIds : DocComplete(d)
    \/ \E d \in DocIds : DocCatch(d)
    \/ \E d \in DocIds : DocHandler(d)
    \/ \E d \in DocIds : DeleteFind(d)
    \/ \E d \in DocIds : DeleteChunks(d)
    \/ \E d \in DocIds : DeleteRow(d)

SpecDoc == InitDoc /\ [][NextDoc]_vars

\* ------------------- specification: an ingestion run and its documents
NextProcess ==
    \/ \E w \in WorkerIds : IngestScrape(w)
    \/ \E w \in WorkerIds : IngestSaveProcessing(w)
    \/ \E w \in WorkerIds : IngestProgressWrite(w)
    \/ \E w \in WorkerIds : IngestComplete(w)
    \/ \E d \in DocIds : DocFind(d)
    \/ \E d \in DocIds : DocEmbed(d)
    \/ \E d \in DocIds : DocInsert(d)
    \/ \E d \in DocIds : DocComplete(d)
    \/ \E d \in DocIds : DocCatch(d)
    \/ \E d \in DocIds : DocHandler(d)

InitProcess == InitStarted(<<UrlRoot, UrlA>>)

SpecProcess == InitProcess /\ [][NextProcess]_vars

\* C36 (as claimed): while a job is COMPLETED no Document that its run
\* created is PROCESSING.
C36_CompletedJobHasNoProcessingDocument ==
    \A j \in JobIds :
       jobs[j].status = "COMPLETED" =>
          \A d \in DocIds : kbDocs[d].status # "PROCESSING"

\* ------------------------------------------ specification: search
NextSearch ==
    \/ \E d \in DocIds, chunks \in 0..MaxChunks : DocCreate(d, chunks)
    \/ \E d \in DocIds : DocFind(d)
    \/ \E d \in DocIds : DocEmbed(d)
    \/ \E d \in DocIds : DocInsert(d)
    \/ \E d \in DocIds : DocComplete(d)
    \/ \E d \in DocIds : DocCatch(d)
    \/ \E d \in DocIds : DocHandler(d)
    \/ \E kb \in AllKbIds, limit \in 0..MaxLimit : Search(kb, limit)

SpecSearch == InitDoc /\ [][NextSearch]_vars

\* ------------------- specification: search and deleteKnowledgeBase
NextStore ==
    \/ NextSearch
    \/ \E kb \in AllKbIds, agentsUsingKB \in 0..1 : deleteKnowledgeBase(kb, agentsUsingKB)

SpecStore == InitDoc /\ [][NextStore]_vars

\* C35 (as claimed): searchKnowledgeBase for a knowledge base whose deletedAt
\* is set throws and returns no chunk, as createDocument throws for it.
C35_SearchOfDeletedNotFound ==
    [][(search' # search /\ kbs[search'.kb].deleted) =>
          (search'.pc = "thrown" /\ search'.results = <<>>)]_vars

\* C27: what a search returns has at most limit results, each a chunk row
\* of a document of the knowledge base that is COMPLETED when the query
\* runs, in descending order of score.
C27_SearchReturnsCompletedTopRows ==
    [][(search' # search /\ search'.pc = "returned") =>
          /\ Len(search'.results) <= search'.limit
          /\ \A k \in 1..Len(search'.results) :
                LET r == search'.results[k] IN
                /\ DocKnowledgeBase(r.document) = search'.kb
                /\ kbDocs[r.document].status = "COMPLETED"
                /\ r.chunkIndex \in Range(kbDocs[r.document].chunkRows)
          /\ \A a, b \in 1..Len(search'.results) :
                a < b => search'.results[a].score >= search'.results[b].score]_vars

\* C27 witness: a search with limit 1 returned the nearer of the two chunks
\* of the COMPLETED document while the other document had failed with a
\* chunk inserted.
C27_Witness ==
    /\ search.pc = "returned" /\ search.limit = 1 /\ Len(search.results) = 1
    /\ \E d \in DocIds :
          /\ kbDocs[d].status = "COMPLETED" /\ Len(kbDocs[d].chunkRows) = 2
          /\ search.results[1].document = d
          /\ \E e \in DocIds \ {d} :
                kbDocs[e].status = "FAILED" /\ Len(kbDocs[e].chunkRows) = 1

C18_CompletedChunkCountMatchesRows ==
    \A d \in DocIds :
       kbDocs[d].status = "COMPLETED" =>
          /\ kbDocs[d].chunkCount = Len(kbDocs[d].chunkRows)
          /\ \A i \in 0..(kbDocs[d].chunkCount - 1) :
                Cardinality({k \in 1..Len(kbDocs[d].chunkRows) :
                               kbDocs[d].chunkRows[k] = i}) = 1

\* The chunk rows that the loop inserted before it reached index.
RowsBefore(index) == [k \in 1..index |-> k - 1]

InitSplit ==
    /\ crawl = [c \in CrawlIds |-> IdleCrawl]
    /\ jobs = [j \in JobIds |-> NoJobRow]
    /\ InitPoolVars
    /\ InitIngestVars
    /\ InitScrapeIdle
    /\ InitDocsNone
    /\ InitStoreIdle
    /\ \/ \E text \in Texts, chunkSize \in 1..MaxChunkSize :
             \E overlap \in 0..(chunkSize - 1) :
                split = CalledSplit(text, chunkSize, overlap)
       \/ split = CalledSplit(ExampleText, 6, 2)

NextSplit == SplitIterate

SpecSplit == InitSplit /\ [][NextSplit]_vars

\* The length of chunk k of the call.
ChunkLength(k) == split.chunks[k].endChar - split.chunks[k].startChar

\* C21 (as claimed): each chunk starts before the end of the chunk before it.
C21_ConsecutiveChunksOverlap ==
    \A i \in 1..(Len(split.chunks) - 1) :
       split.chunks[i + 1].startChar < split.chunks[i].endChar

LongestSeparator ==
    CHOOSE n \in {Len(separators[k]) : k \in 1..Len(separators)} :
       \A k \in 1..Len(separators) : Len(separators[k]) <= n

\* C22: no chunk is longer than chunkSize plus the longest separator; the
\* chunks of "A. B. C. D." with chunkSize 6 and overlap 2 have at most 8
\* characters, and each but the last ends just after ". ".
C22_ChunkLengthBounded ==
    /\ LongestSeparator = 2
    /\ \A k \in 1..Len(split.chunks) :
          ChunkLength(k) <= split.chunkSize + LongestSeparator
    /\ (split.text = ExampleText /\ split.pc = "returned") =>
          /\ Len(split.chunks) > 1
          /\ \A k \in 1..Len(split.chunks) :
                /\ ChunkLength(k) <= 8
                /\ k < Len(split.chunks) =>
                      SubSeq(split.text, split.chunks[k].endChar - 1,
                             split.chunks[k].endChar) = <<".", " ">>

\* C22 witness: a chunk that ends after a separator beyond the window has
\* chunkSize + 2 characters.
C22_Witness ==
    /\ split.pc = "returned"
    /\ \E k \in 1..Len(split.chunks) : ChunkLength(k) = split.chunkSize + 2

\* C23: the start of the window strictly increases from chunk to chunk, so
\* there are never more chunks than characters.
C23_StartStrictlyIncreases ==
    /\ \A i \in 1..(Len(split.chunks) - 1) :
          split.chunks[i + 1].startChar > split.chunks[i].startChar
    /\ (split.pc = "loop" /\ split.chunks # <<>>) =>
          split.currentStart > split.chunks[Len(split.chunks)].startChar
    /\ Len(split.chunks) <= Len(split.text)

\* C23 witness: the overlap reached back to the start of a chunk and the
\* window was moved on by half a chunkSize.
C23_Witness ==
    /\ split.pc = "returned"
    /\ \E i \in 1..(Len(split.chunks) - 1) :
          /\ split.chunks[i].endChar - split.overlap <= split.chunks[i].startChar
          /\ split.chunks[i + 1].startChar =
                split.chunks[i].startChar + (split.chunkSize \div 2)

\* C24: every chunk is a non-empty slice of the text inside its bounds, and
\* the empty text gives no chunk.
C24_ChunksAreValidSlices ==
    /\ \A k \in 1..Len(split.chunks) :
          /\ 0 <= split.chunks[k].startChar
          /\ split.chunks[k].startChar < split.chunks[k].endChar
          /\ split.chunks[k].endChar <= Len(split.text)
          /\ split.chunks[k].text =
                [i \in 1..ChunkLength(k) |-> split.text[split.chunks[k].startChar + i]]
    /\ split.text = <<>> => split.chunks = <<>>

\* C24 witness: a text was split at separators into three chunks.
C24_Witness ==
    /\ split.pc = "returned"
    /\ Len(split.chunks) = 3
    /\ \E k \in 1..2 : ChunkLength(k) < split.chunkSize

\* C20: when splitTextIntoChunks returns, every position of the text lies
\* in [startChar, endChar) of one of the chunks.
C20_ChunksCoverText ==
    split.pc = "returned" =>
       \A p \in 0..(Len(split.text) - 1) :
          \E k \in 1..Len(split.chunks) :
             split.chunks[k].startChar <= p /\ p < split.chunks[k].endChar

\* ------------------------------- specification: one run over five pages
InitFive == InitStarted(FiveUrls)

NextFive ==
    \/ \E w \in WorkerIds : IngestScrape(w)
    \/ \E w \in WorkerIds : IngestSave(w)
    \/ \E w \in WorkerIds : IngestProgressWrite(w)
    \/ \E w \in WorkerIds : IngestComplete(w)

SpecFive == InitFive /\ [][NextFive]_vars

\* The number of passes of the run that ended with the given outcome.
CountOutcomes(wk, outcome) ==
    Cardinality({i \in 1..Len(wk.outcomes) : wk.outcomes[i] = outcome})

C37_ScrapedUrlsMatchCount ==
    \A w \in WorkerIds :
       (workers[w].pc = "done" /\ workers[w].completion = "applied") =>
          /\ Len(jobs[workers[w].job].scrapedUrls) = jobs[workers[w].job].scrapedCount
          /\ jobs[workers[w].job].scrapedUrls = workers[w].results

\* C30 (as claimed): no pass of the ingestion loop ends without a Document
\* being written for a URL whose extracted content has 20 characters or more.
C30_ContentOfTwentyGetsDocument ==
    \A w \in WorkerIds :
       \A i \in 1..Len(workers[w].outcomes) : workers[w].outcomes[i] # "short"

====
